---------------------------- MODULE Spec2Model ----------------------------
(***************************************************************************)
(* Model of the ReactiveTable custom element (src/src/index.js).           *)
(*                                                                         *)
(* The element has two string properties, data and schema.  On each update *)
(* willUpdate parses the changed ones with JSON.parse, render recomputes   *)
(* the grid template and produces the table, and a click on a marker cell  *)
(* of a grouped row toggles classes directly on the rendered cells.        *)
(*                                                                         *)
(* A JSON text is modelled as the sequence of its lexical tokens, a parsed *)
(* JavaScript value as a tagged record, and the rendered table as the tree *)
(* of cells with their class lists and texts.                              *)
(***************************************************************************)
EXTENDS Integers, Sequences, FiniteSets, TLC

(***************************************************************************)
(* JavaScript values.  Every value is a record of the same shape so that   *)
(* any two of them can be compared.  A primitive carries its literal, an   *)
(* array its items, an object its members as a sequence of key/value pairs *)
(* with distinct keys.                                                     *)
(***************************************************************************)
Prim(l) == [t |-> "prim", lit |-> l, items |-> <<>>, fields |-> <<>>]

Arr(s) == [t |-> "arr", lit |-> "", items |-> s, fields |-> <<>>]

Obj(f) == [t |-> "obj", lit |-> "", items |-> <<>>, fields |-> f]

Undefined == Prim("undefined")

Null == Prim("null")

\* Array.isArray(v)
IsArray(v) == v.t = "arr"

\* v == null, the test made by the ?? operator
IsNullish(v) == v = Undefined \/ v = Null

\* the falsy primitives (the test made by && and ||)
IsFalsy(v) == v.t = "prim" /\ v.lit \in {"undefined", "null", "0", "false", "\"\""}

\* obj[key]: the member's value, undefined when the object has no such member
Get(obj, key) ==
    IF \E n \in DOMAIN obj.fields : obj.fields[n].k = key
    THEN obj.fields[CHOOSE n \in DOMAIN obj.fields : obj.fields[n].k = key].v
    ELSE Undefined

\* obj with member key set to val: a repeated key of a JSON text overwrites
Put(f, key, val) ==
    IF \E n \in DOMAIN f : f[n].k = key
    THEN [n \in DOMAIN f |-> IF f[n].k = key THEN [k |-> key, v |-> val] ELSE f[n]]
    ELSE Append(f, [k |-> key, v |-> val])

(***************************************************************************)
(* JSON.parse over token sequences.                                        *)
(***************************************************************************)
StringToks == {"\"a\"", "\"b\"", "\"key\"", "\"name\"", "\"default\"",
               "\"A\"", "\"B\"", "\"-\"", "\"x\"", "\"\""}

ScalarToks == StringToks \cup {"0", "1", "2", "3", "true", "false", "null"}

\* the characters between the quotes of a string token
Unquote(tk) ==
    CASE tk = "\"a\"" -> "a"
      [] tk = "\"b\"" -> "b"
      [] tk = "\"key\"" -> "key"
      [] tk = "\"name\"" -> "name"
      [] tk = "\"default\"" -> "default"
      [] tk = "\"A\"" -> "A"
      [] tk = "\"B\"" -> "B"
      [] tk = "\"-\"" -> "-"
      [] tk = "\"x\"" -> "x"
      [] OTHER -> ""

ParseFail == [ok |-> FALSE, val |-> Undefined, next |-> 0]

ParseOk(v, n) == [ok |-> TRUE, val |-> v, next |-> n]

RECURSIVE ParseValue(_, _)
RECURSIVE ParseElements(_, _, _)
RECURSIVE ParseMembers(_, _, _)

\* the value starting at token i
ParseValue(toks, i) ==
    IF i > Len(toks) THEN ParseFail
    ELSE IF toks[i] = "["
         THEN IF i + 1 <= Len(toks) /\ toks[i + 1] = "]"
              THEN ParseOk(Arr(<<>>), i + 2)
              ELSE ParseElements(toks, i + 1, <<>>)
    ELSE IF toks[i] = "{"
         THEN IF i + 1 <= Len(toks) /\ toks[i + 1] = "}"
              THEN ParseOk(Obj(<<>>), i + 2)
              ELSE ParseMembers(toks, i + 1, <<>>)
    ELSE IF toks[i] \in ScalarToks THEN ParseOk(Prim(toks[i]), i + 1)
    ELSE ParseFail

\* the rest of an array whose items so far are acc
ParseElements(toks, i, acc) ==
    LET r == ParseValue(toks, i)
    IN  IF ~r.ok \/ r.next > Len(toks) THEN ParseFail
        ELSE IF toks[r.next] = ","
             THEN ParseElements(toks, r.next + 1, Append(acc, r.val))
        ELSE IF toks[r.next] = "]"
             THEN ParseOk(Arr(Append(acc, r.val)), r.next + 1)
        ELSE ParseFail

\* the rest of an object whose members so far are acc
ParseMembers(toks, i, acc) ==
    IF i + 2 > Len(toks) \/ toks[i] \notin StringToks \/ toks[i + 1] # ":"
    THEN ParseFail
    ELSE LET r == ParseValue(toks, i + 2)
         IN  IF ~r.ok \/ r.next > Len(toks) THEN ParseFail
             ELSE IF toks[r.next] = ","
                  THEN ParseMembers(toks, r.next + 1, Put(acc, Unquote(toks[i]), r.val))
             ELSE IF toks[r.next] = "}"
                  THEN ParseOk(Obj(Put(acc, Unquote(toks[i]), r.val)), r.next + 1)
             ELSE ParseFail

\* JSON.parse(text): ok is FALSE when it throws a SyntaxError
JSONparse(text) ==
    LET r == ParseValue(text, 1)
    IN  IF r.ok /\ r.next = Len(text) + 1
        THEN [ok |-> TRUE, val |-> r.val]
        ELSE [ok |-> FALSE, val |-> Undefined]

(***************************************************************************)
(* The values the host gives the two properties.  A property holds a       *)
(* string (its tokens) or, once its attribute is removed, null.            *)
(***************************************************************************)
Str(toks) == [set |-> TRUE, text |-> toks]

NullInput == [set |-> FALSE, text |-> <<>>]

\* the truthiness of a property value: null and the empty string are falsy
Truthy(in) == in.set /\ in.text # <<>>

\* "[]", the value the constructor gives both properties
EmptyArrayText == <<"[", "]">>

DataTexts ==
    { EmptyArrayText,
      \* [{"a":0,"b":null},{"b":""}]
      <<"[", "{", "\"a\"", ":", "0", ",", "\"b\"", ":", "null", "}", ",",
             "{", "\"b\"", ":", "\"\"", "}", "]">>,
      \* [[{"a":1},{"a":2},{"b":"x"}],{"a":3}]
      <<"[", "[", "{", "\"a\"", ":", "1", "}", ",",
                  "{", "\"a\"", ":", "2", "}", ",",
                  "{", "\"b\"", ":", "\"x\"", "}", "]", ",",
             "{", "\"a\"", ":", "3", "}", "]">>,
      \* [[{"a":1}],[{"a":false},{}]]
      <<"[", "[", "{", "\"a\"", ":", "1", "}", "]", ",",
             "[", "{", "\"a\"", ":", "false", "}", ",", "{", "}", "]", "]">>,
      \* [{"a":   (truncated)
      <<"[", "{", "\"a\"", ":">> }

SchemaTexts ==
    { EmptyArrayText,
      \* [{"key":"a","name":"A","default":"-"}]
      <<"[", "{", "\"key\"", ":", "\"a\"", ",", "\"name\"", ":", "\"A\"", ",",
                  "\"default\"", ":", "\"-\"", "}", "]">>,
      \* [{"key":"a","name":"A","default":"-"},{"key":"b","name":"B"}]
      <<"[", "{", "\"key\"", ":", "\"a\"", ",", "\"name\"", ":", "\"A\"", ",",
                  "\"default\"", ":", "\"-\"", "}", ",",
             "{", "\"key\"", ":", "\"b\"", ",", "\"name\"", ":", "\"B\"", "}", "]">>,
      \* [{   (truncated)
      <<"[", "{">> }

DataInputs == {Str(t) : t \in DataTexts} \cup {Str(<<>>), NullInput}

SchemaInputs == {Str(t) : t \in SchemaTexts} \cup {NullInput}

\* the longest run of expander clicks on one row that is counted
MaxClicks == 3

VARIABLES
    data,           \* this.data
    schema,         \* this.schema
    _data,          \* this._data
    _schema,        \* this._schema
    hasHiddenRows,  \* this.hasHiddenRows
    changed,        \* the changed-properties map of the pending update
    pending,        \* an update is scheduled
    lastUpdate,     \* "none", or how the last update ended: "rendered", "threw"
    gridtemplate,   \* the --gridtemplate custom property
    thead,          \* the texts of the header cells
    tbody,          \* the body: the "no data" row or the rows' cells
    tfoot,          \* the number shown in the footer
    toggles         \* per body row, the expander clicks since the row block
                    \* was last rendered collapsed, or -1 when it was rendered
                    \* otherwise or another of its cells was clicked

vars == <<data, schema, _data, _schema, hasHiddenRows, changed, pending,
          lastUpdate, gridtemplate, thead, tbody, tfoot, toggles>>

dom == <<hasHiddenRows, gridtemplate, thead, tbody, tfoot, toggles>>

(***************************************************************************)
(* Rendering.  A cell is its class list and its text.  A row block (a tr)  *)
(* is a sequence of segments, one per subrow of a grouped row and a single *)
(* one for a plain row; a segment is its leading cell (absent in a plain   *)
(* row of a table without grouped rows) followed by one cell per column.   *)
(***************************************************************************)
Cell(c, txt) == [cls |-> c, text |-> txt]

\* the string key a property access converts its operand to
PropertyKey(v) == IF v.lit \in StringToks THEN Unquote(v.lit) ELSE v.lit

\* the text lit-html writes for a child value: nothing for null, undefined
\* and the empty string, else the value converted to a string
toText(v) ==
    IF IsNullish(v) THEN ""
    ELSE IF v.lit \in StringToks THEN Unquote(v.lit)
    ELSE v.lit

\* record[h.key] || h.default: the falsy values fall to the default as well
cellValueOr(record, h) ==
    LET v == Get(record, PropertyKey(Get(h, "key")))
    IN  IF IsFalsy(v) THEN Get(h, "default") ELSE v

\* record[h.key] ?? h.default
cellValue(record, h) ==
    LET v == Get(record, PropertyKey(Get(h, "key")))
    IN  IF IsNullish(v) THEN Get(h, "default") ELSE v

\* the value bound to the class attribute of the cells of subrow index
subrowClass(index) == IF index # 0 THEN {"subrow", "hidden"} ELSE {}

\* the value bound to the class attribute of the leading cell of subrow index
markerClass(index) == IF index # 0 THEN {"subrow", "hidden"} ELSE {"expander"}

\* lit-html sets a bound attribute only when the bound value differs from the
\* value it committed last; otherwise the element keeps the class list it has
commitClass(domCls, committed, value) ==
    IF committed = value THEN domCls ELSE value

\* this.data.some((row) => Array.isArray(row))
someArray(rows) == \E i \in DOMAIN rows : IsArray(rows[i])

\* the grid template that is never recomputed once a grouped row was seen
gridTemplateCached(had, rows, sch) ==
    [lead |-> had \/ someArray(rows), repeat |-> Len(sch)]

\* `1rem repeat(n, 1fr)` or `repeat(n, 1fr)`
gridTemplate(had, rows, sch) ==
    [lead |-> someArray(rows), repeat |-> Len(sch)]

\* _getHeaders
getHeaders(hidden, sch) ==
    (IF hidden THEN <<"">> ELSE <<>>)
        \o [c \in 1 .. Len(sch) |-> toText(Get(sch[c], "name"))]

\* the segment of subrow index of a grouped row; old is the segment rendered
\* at this position of the same row block before, when hasOld
commitSubrow(old, hasOld, subrow, index, sch) ==
    [marker |->
        <<Cell(IF hasOld
               THEN commitClass(old.marker[1].cls, markerClass(index), markerClass(index))
               ELSE markerClass(index), "")>>,
     cells |->
        [c \in 1 .. Len(sch) |->
            Cell(IF hasOld /\ c <= Len(old.cells)
                 THEN commitClass(old.cells[c].cls, subrowClass(index), subrowClass(index))
                 ELSE subrowClass(index),
                 toText(cellValue(subrow, sch[c])))]]

\* the old row block is updated in place when it came from the same template
reusable(old, hasOld, row) == hasOld /\ old.kind = "grouped" /\ IsArray(row)

\* one tr of the body
commitRow(old, hasOld, row, sch, hidden) ==
    IF IsArray(row)
    THEN [kind |-> "grouped",
          subs |-> [k \in 1 .. Len(row.items) |->
                      LET keep == reusable(old, hasOld, row) /\ k <= Len(old.subs)
                      IN  commitSubrow(IF keep THEN old.subs[k] ELSE <<>>, keep,
                                       row.items[k], k - 1, sch)]]
    ELSE [kind |-> "plain",
          subs |-> <<[marker |-> IF hidden THEN <<Cell({}, "")>> ELSE <<>>,
                      cells |-> [c \in 1 .. Len(sch) |->
                                    Cell({}, toText(cellValue(row, sch[c])))]]>>]

\* the rows of a non-empty dataset
bodyRows(old, rows, sch, hidden) ==
    [nodata |-> FALSE,
     rows |-> [i \in 1 .. Len(rows) |->
                 LET has == ~old.nodata /\ i <= Len(old.rows)
                 IN  commitRow(IF has THEN old.rows[i] ELSE <<>>, has,
                               rows[i], sch, hidden)]]

\* the body whose emptiness test reads the schema instead of the dataset
getRowsSchemaTest(old, rows, sch, hidden) ==
    IF Len(sch) = 0
    THEN [nodata |-> TRUE, rows |-> <<>>]
    ELSE bodyRows(old, rows, sch, hidden)

\* _getRows
getRows(old, rows, sch, hidden) ==
    IF Len(rows) = 0
    THEN [nodata |-> TRUE, rows |-> <<>>]
    ELSE bodyRows(old, rows, sch, hidden)

\* the footer counting the subrows
recordCountSubrows(rows) ==
    Cardinality(UNION {IF IsArray(rows[i])
                       THEN {<<i, k>> : k \in DOMAIN rows[i].items}
                       ELSE {<<i, 1>>} : i \in DOMAIN rows})

\* ${this._data.length} records
recordCount(rows) == Len(rows)

(***************************************************************************)
(* The click handler.                                                      *)
(***************************************************************************)
\* classList.toggle(name)
classToggle(cls, name) == IF name \in cls THEN cls \ {name} ELSE cls \cup {name}

\* cell.classList.toggle('hidden') for the cells that match '.subrow'
toggleSubrowCell(cell) ==
    IF "subrow" \in cell.cls THEN [cell EXCEPT !.cls = classToggle(@, "hidden")] ELSE cell

\* row.querySelectorAll('.subrow').forEach(...)
toggleSubrows(row) ==
    [row EXCEPT !.subs =
        [s \in DOMAIN row.subs |->
            [marker |-> [m \in DOMAIN row.subs[s].marker |->
                            toggleSubrowCell(row.subs[s].marker[m])],
             cells |-> [c \in DOMAIN row.subs[s].cells |->
                            toggleSubrowCell(row.subs[s].cells[c])]]]]

\* the handler that forgets the expander's own class
handleToggleExpandClickNoMark(row, k) == toggleSubrows(row)

\* _handleToggleExpandClick with e.target the leading cell of segment k of row
handleToggleExpandClick(row, k) ==
    [toggleSubrows(row) EXCEPT !.subs[k].marker[1].cls = classToggle(@, "expanded")]

\* the handler that looks the subrow cells up in the whole body
clickRowsDocument(rows, i, k) ==
    [j \in DOMAIN rows |->
        IF j = i THEN handleToggleExpandClick(rows[j], k) ELSE toggleSubrows(rows[j])]

\* the body after a click on the leading cell of segment k of row block i:
\* the handler reaches the cells below e.target.parentNode only
clickRows(rows, i, k) ==
    [j \in DOMAIN rows |->
        IF j = i THEN handleToggleExpandClick(rows[j], k) ELSE rows[j]]

(***************************************************************************)
(* The states of a grouped row block.                                      *)
(***************************************************************************)
\* the leading cell of the first segment of a grouped row block
ExpanderOf(row) == row.subs[1].marker[1]

\* the cells of the segments after the first, leading cells included
SubrowCellsOf(row) ==
    UNION {{row.subs[k].marker[m] : m \in DOMAIN row.subs[k].marker}
              \cup {row.subs[k].cells[c] : c \in DOMAIN row.subs[k].cells}
           : k \in (DOMAIN row.subs) \ {1}}

\* the cells of the first segment
FirstCellsOf(row) ==
    {row.subs[1].marker[m] : m \in DOMAIN row.subs[1].marker}
        \cup {row.subs[1].cells[c] : c \in DOMAIN row.subs[1].cells}

Hidden(cell) == "hidden" \in cell.cls

Expanded(cell) == "expanded" \in cell.cls

CollapsedBlock(row) ==
    /\ ~Expanded(ExpanderOf(row))
    /\ \A c \in SubrowCellsOf(row) : Hidden(c)

ExpandedBlock(row) ==
    /\ Expanded(ExpanderOf(row))
    /\ \A c \in SubrowCellsOf(row) : ~Hidden(c)

(***************************************************************************)
(* The update cycle.                                                       *)
(***************************************************************************)
\* willUpdate(changed): the structures after it, and whether it threw.  A
\* throw of the first JSON.parse leaves the second statement unexecuted.
willUpdate(ch) ==
    LET parseData == "data" \in ch /\ Truthy(data)
        d == IF parseData THEN JSONparse(data.text) ELSE [ok |-> TRUE, val |-> _data]
        parseSchema == d.ok /\ "schema" \in ch /\ Truthy(schema)
        s == IF parseSchema THEN JSONparse(schema.text) ELSE [ok |-> TRUE, val |-> _schema]
    IN  [d |-> IF d.ok THEN d.val ELSE _data,
         s |-> IF s.ok THEN s.val ELSE _schema,
         threw |-> ~d.ok \/ ~s.ok]

Init ==
    /\ data = Str(EmptyArrayText)
    /\ schema = Str(EmptyArrayText)
    /\ _data = Arr(<<>>)
    /\ _schema = Arr(<<>>)
    /\ hasHiddenRows = FALSE
    /\ changed = {"data", "schema"}
    /\ pending = TRUE
    /\ lastUpdate = "none"
    /\ gridtemplate = [lead |-> FALSE, repeat |-> 1]
    /\ thead = <<>>
    /\ tbody = [nodata |-> FALSE, rows |-> <<>>]
    /\ tfoot = 0
    /\ toggles = <<>>

\* the host assigns the data property (or removes the attribute)
SetData(v) ==
    /\ v # data
    /\ data' = v
    /\ changed' = changed \cup {"data"}
    /\ pending' = TRUE
    /\ UNCHANGED <<schema, _data, _schema, lastUpdate, dom>>

\* the host assigns the schema property (or removes the attribute)
SetSchema(v) ==
    /\ v # schema
    /\ schema' = v
    /\ changed' = changed \cup {"schema"}
    /\ pending' = TRUE
    /\ UNCHANGED <<data, _data, _schema, lastUpdate, dom>>

\* render(), with the structures willUpdate left
render(rows, sch) ==
    /\ hasHiddenRows' = someArray(rows)
    /\ gridtemplate' = gridTemplate(hasHiddenRows, rows, sch)
    /\ thead' = getHeaders(someArray(rows), sch)
    /\ tbody' = getRows(tbody, rows, sch, someArray(rows))
    /\ tfoot' = recordCount(rows)
    /\ toggles' = [i \in 1 .. Len(rows) |->
                     IF /\ reusable(IF ~tbody.nodata /\ i <= Len(tbody.rows)
                                    THEN tbody.rows[i] ELSE <<>>,
                                    ~tbody.nodata /\ i <= Len(tbody.rows), rows[i])
                        /\ ~CollapsedBlock(tbody'.rows[i])
                     THEN -1 ELSE 0]

\* the scheduled update: willUpdate, then render unless willUpdate threw; in
\* both cases the changed-properties map is cleared
PerformUpdate ==
    /\ pending
    /\ LET w == willUpdate(changed)
       IN  /\ _data' = w.d
           /\ _schema' = w.s
           /\ IF w.threw
              THEN lastUpdate' = "threw" /\ UNCHANGED dom
              ELSE lastUpdate' = "rendered" /\ render(w.d.items, w.s.items)
    /\ changed' = {}
    /\ pending' = FALSE
    /\ UNCHANGED <<data, schema>>

\* a click on the leading cell of segment k of row block i, which carries the
\* handler in a grouped row and can be hit while it is displayed; a scheduled
\* update runs as a microtask, before the next event is dispatched
Click(i, k) ==
    /\ ~pending
    /\ i \in DOMAIN tbody.rows
    /\ tbody.rows[i].kind = "grouped"
    /\ k \in DOMAIN tbody.rows[i].subs
    /\ "hidden" \notin tbody.rows[i].subs[k].marker[1].cls
    /\ tbody' = [tbody EXCEPT !.rows = clickRows(tbody.rows, i, k)]
    /\ toggles' = [toggles EXCEPT ![i] =
                      IF k = 1 /\ @ >= 0 /\ @ < MaxClicks THEN @ + 1 ELSE -1]
    /\ UNCHANGED <<data, schema, _data, _schema, hasHiddenRows, changed, pending,
                   lastUpdate, gridtemplate, thead, tfoot>>

Next ==
    \/ \E v \in DataInputs : SetData(v)
    \/ \E v \in SchemaInputs : SetSchema(v)
    \/ PerformUpdate
    \/ \E i \in DOMAIN tbody.rows : \E k \in DOMAIN tbody.rows[i].subs : Click(i, k)

Spec == Init /\ [][Next]_vars

(***************************************************************************)
(* Properties.                                                             *)
(***************************************************************************)
GroupedBlocks == {i \in DOMAIN tbody.rows : tbody.rows[i].kind = "grouped"}

AllCollapsed == \A i \in GroupedBlocks : CollapsedBlock(tbody.rows[i])

Rendered == lastUpdate = "rendered"

\* the input is a string that JSON.parse accepts
ValidInput(in) == Truthy(in) /\ JSONparse(in.text).ok

\* C1: a grouped row block that has received n expander clicks, and nothing
\* else, since it was rendered collapsed shows its first segment, and is collapsed
\* (subrow cells hidden, expander unmarked) when n is even and expanded
\* (subrow cells visible, expander marked) when n is odd.
C1_ToggleParity ==
    \A i \in GroupedBlocks :
        toggles[i] >= 0 =>
            /\ \A c \in FirstCellsOf(tbody.rows[i]) : ~Hidden(c)
            /\ toggles[i] % 2 = 0 => CollapsedBlock(tbody.rows[i])
            /\ toggles[i] % 2 = 1 => ExpandedBlock(tbody.rows[i])

C1_Witness ==
    \E i \in GroupedBlocks :
        /\ toggles[i] = 3
        /\ Len(tbody.rows[i].subs) = 3
        /\ Len(_schema.items) = 2

\* C2: a click on a cell of row block i leaves every other row block of the
\* body as it was.
C2_ClickFrame ==
    [][\A i \in DOMAIN tbody.rows : \A k \in DOMAIN tbody.rows[i].subs :
          Click(i, k) =>
              /\ DOMAIN tbody'.rows = DOMAIN tbody.rows
              /\ \A j \in DOMAIN tbody.rows : j # i => tbody'.rows[j] = tbody.rows[j]]_vars

C2_Witness ==
    \E i, j \in GroupedBlocks :
        /\ i # j
        /\ toggles[i] = 1 /\ Expanded(ExpanderOf(tbody.rows[i]))
        /\ toggles[j] = 0 /\ SubrowCellsOf(tbody.rows[j]) # {}
        /\ CollapsedBlock(tbody.rows[j])

\* C3: every update that renders leaves all grouped row blocks collapsed.
C3_RenderCollapses ==
    [][(pending /\ ~pending' /\ lastUpdate' = "rendered") => AllCollapsed']_vars

\* C4: after a render the grid template has one 1fr column per column of the
\* parsed schema, led by a 1rem column exactly when a row of the parsed
\* dataset is an array: |S| columns without grouped rows, |S| + 1 with one.
C4_GridTemplate ==
    Rendered =>
        LET grouped == \E i \in DOMAIN _data.items : _data.items[i].t = "arr"
            columns == gridtemplate.repeat + (IF gridtemplate.lead THEN 1 ELSE 0)
        IN  /\ gridtemplate.lead = grouped
            /\ gridtemplate.repeat = Len(_schema.items)
            /\ columns = Len(_schema.items) + (IF grouped THEN 1 ELSE 0)

C4_Witness ==
    /\ Rendered
    /\ gridtemplate = [lead |-> FALSE, repeat |-> 2]
    /\ Len(_data.items) = 2

\* the member of record named by column h when it is present and not null
PresentValue(record, h) ==
    {record.fields[n].v : n \in {m \in DOMAIN record.fields :
        /\ record.fields[m].k = PropertyKey(Get(h, "key"))
        /\ record.fields[m].v # Null}}

\* the text a data cell is to show
ExpectedText(record, h) ==
    IF PresentValue(record, h) # {}
    THEN toText(CHOOSE v \in PresentValue(record, h) : TRUE)
    ELSE toText(Get(h, "default"))

\* the record behind segment k of row i of the parsed dataset
RecordAt(i, k) ==
    IF IsArray(_data.items[i]) THEN _data.items[i].items[k] ELSE _data.items[i]

\* C5: after a render every segment has one data cell per schema column, in
\* schema order, showing the record's value when it is present and not
\* nullish (0, false and "" included) and the column's default otherwise.
C5_CellValues ==
    Rendered =>
        \A i \in DOMAIN tbody.rows : \A k \in DOMAIN tbody.rows[i].subs :
            /\ Len(tbody.rows[i].subs[k].cells) = Len(_schema.items)
            /\ \A c \in DOMAIN _schema.items :
                   tbody.rows[i].subs[k].cells[c].text
                       = ExpectedText(RecordAt(i, k), _schema.items[c])

C5_Witness ==
    /\ Rendered
    /\ Len(_schema.items) = 2
    /\ \E i \in DOMAIN tbody.rows :
          /\ Get(_data.items[i], "a") = Prim("0")
          /\ Get(_data.items[i], "b") = Null
          /\ tbody.rows[i].subs[1].cells[1].text = "0"
          /\ tbody.rows[i].subs[1].cells[2].text = ""
    /\ \E i \in DOMAIN tbody.rows :
          /\ Get(_data.items[i], "a") = Undefined
          /\ tbody.rows[i].subs[1].cells[1].text = "-"

\* C6: after a render the footer shows the number of top-level entries of
\* the parsed dataset, whatever their subrows and whatever was clicked.
C6_RecordCount == Rendered => tfoot = Len(_data.items)

C6_Witness ==
    /\ Rendered
    /\ tfoot = 2
    /\ \E i \in GroupedBlocks :
          Len(tbody.rows[i].subs) = 3 /\ Expanded(ExpanderOf(tbody.rows[i]))

\* C7: after a render of an empty dataset the body is the "no data" row alone
\* with no data cell; after a render of a non-empty one there is no such row
\* and the body has one row block per entry, in order, grouped for an array
\* with one segment per subrow and plain otherwise.
C7_BodyShape ==
    Rendered =>
        IF Len(_data.items) = 0
        THEN tbody.nodata /\ tbody.rows = <<>>
        ELSE /\ ~tbody.nodata
             /\ Len(tbody.rows) = Len(_data.items)
             /\ \A i \in DOMAIN tbody.rows :
                   IF _data.items[i].t = "arr"
                   THEN /\ tbody.rows[i].kind = "grouped"
                        /\ Len(tbody.rows[i].subs) = Len(_data.items[i].items)
                   ELSE /\ tbody.rows[i].kind = "plain"
                        /\ Len(tbody.rows[i].subs) = 1

C7_Witness ==
    /\ Rendered
    /\ tbody.nodata
    /\ Len(_schema.items) = 2
    /\ data # Str(EmptyArrayText)

\* C8: once the update is done, an input that is null or the empty string has
\* the empty array as its structure, and the body of an unset data input is
\* the "no data" row.
C8_UnsetIsEmpty ==
    ~pending =>
        /\ ~Truthy(data) => _data = Arr(<<>>)
        /\ ~Truthy(schema) => _schema = Arr(<<>>)
        /\ (Rendered /\ ~Truthy(data)) => tbody.nodata

\* C9: once the update is done, each structure is the parse of its own input
\* whenever that input is valid, whatever the other input holds.
C9_IndependentParse ==
    ~pending =>
        /\ ValidInput(schema) => _schema = JSONparse(schema.text).val
        /\ ValidInput(data) => _data = JSONparse(data.text).val

\* C10: in every grouped row block the cells of the segments after the first
\* are all hidden or all visible, the expander is marked expanded exactly
\* when they are visible, and no other cell carries the expanded mark.
C10_BlockConsistent ==
    \A i \in GroupedBlocks :
        LET row == tbody.rows[i]
        IN  /\ \A c, d \in SubrowCellsOf(row) : Hidden(c) = Hidden(d)
            /\ \A c \in SubrowCellsOf(row) : Expanded(ExpanderOf(row)) = ~Hidden(c)
            /\ \A c \in SubrowCellsOf(row) \cup (FirstCellsOf(row) \ {ExpanderOf(row)}) :
                   ~Expanded(c)

=============================================================================
